---- MODULE Spec2Model ----
(***************************************************************************)
(* Model of pipeline.py: two JSON documents are fetched, shape-validated,  *)
(* turned into data frames, normalised onto the join key customer_id,      *)
(* joined with diagnostics, enriched with a derived column and written to  *)
(* disk together with a diagnostics file.                                  *)
(*                                                                         *)
(* Representation.                                                         *)
(*  - A Python str is a sequence of one-character strings; Ord gives the   *)
(*    code point, so that string comparison is Python's.                   *)
(*  - A scalar cell is a record [t, n, d, s]: t is "int", "float", "str",  *)
(*    "null" (None) or "nan" (the missing marker of pandas); n / d is the  *)
(*    value of a number (d = 1 for an int), s the text of a "str".         *)
(*  - A DataFrame is [columns, rows]: the set of column names and the      *)
(*    sequence of rows, each a function from the columns to cells.         *)
(*  - A decoded JSON document is [k, map]: k its Python type and map the   *)
(*    entries of a dict; a keyed value is [k, items]; a list element is    *)
(*    [k, rec], rec the fields of a record.                                *)
(* Scope: identifier and survey cells are ints >= 0, strings or None, and  *)
(* the records of one payload share one set of fields.                     *)
(***************************************************************************)
EXTENDS Integers, Sequences, FiniteSets, TLC

VARIABLES
    pc,            \* position of run(), or "call"/"returned" for a single function
    feedback_res,  \* FetchResult of the feedback source
    customer_res,  \* FetchResult of the customer source
    merged_df,     \* the joined frame held by run()
    diag,          \* run()'s diagnostics dict: a function from its keys
    disk,          \* files of output_dir: file name -> content, absent names missing
    log,           \* logging records emitted so far, as message tags
    exit_code,     \* run()'s return value, -1 while running
    arg,           \* argument of the single function under check
    ret            \* its return value

vars == <<pc, feedback_res, customer_res, merged_df, diag, disk, log, exit_code, arg, ret>>

----------------------------------------------------------------------------
(* Bounds *)

MaxRows == 2
MaxIdLen == 7
MaxJoinLeft == 3
MaxJoinRight == 1
MaxShapeItems == 3
MaxDeriveRows == 2

----------------------------------------------------------------------------
(* Generic helpers *)

Max(a, b) == IF a >= b THEN a ELSE b

Min(a, b) == IF a <= b THEN a ELSE b

Range(s) == {s[i] : i \in 1..Len(s)}

SeqsUpTo(S, n) == UNION {[1..k -> S] : k \in 0..n}

EmptyMap == [x \in {} |-> 0]

RECURSIVE SumSet(_, _)
SumSet(S, f) ==
    IF S = {} THEN 0
    ELSE LET x == CHOOSE y \in S : TRUE
         IN  f[x] + SumSet(S \ {x}, f)

\* s[:n]
Take(s, n) == SubSeq(s, 1, Min(n, Len(s)))

----------------------------------------------------------------------------
(* Python strings and scalar cells *)

Ord(ch) ==
    CASE ch = "-" -> 45
      [] ch = "0" -> 48 [] ch = "1" -> 49 [] ch = "2" -> 50 [] ch = "3" -> 51
      [] ch = "4" -> 52 [] ch = "5" -> 53 [] ch = "6" -> 54 [] ch = "7" -> 55
      [] ch = "8" -> 56 [] ch = "9" -> 57
      [] ch = "C" -> 67 [] ch = "D" -> 68 [] ch = "I" -> 73 [] ch = "N" -> 78
      [] ch = "a" -> 97 [] ch = "b" -> 98 [] ch = "c" -> 99 [] ch = "d" -> 100
      [] ch = "e" -> 101 [] ch = "i" -> 105 [] ch = "n" -> 110 [] ch = "o" -> 111
      [] ch = "x" -> 120

\* Python's s < t on str: lexicographic by code point
RECURSIVE StrLess(_, _)
StrLess(s, t) ==
    IF t = <<>> THEN FALSE
    ELSE IF s = <<>> THEN TRUE
    ELSE IF Head(s) = Head(t) THEN StrLess(Tail(s), Tail(t))
    ELSE Ord(Head(s)) < Ord(Head(t))

DIGITS == <<"0", "1", "2", "3", "4", "5", "6", "7", "8", "9">>

IntV(n) == [t |-> "int", n |-> n, d |-> 1, s |-> <<>>]
StrV(s) == [t |-> "str", n |-> 0, d |-> 1, s |-> s]
NullV == [t |-> "null", n |-> 0, d |-> 1, s |-> <<>>]
NaNV == [t |-> "nan", n |-> 0, d |-> 1, s |-> <<>>]

RECURSIVE GCD(_, _)
GCD(a, b) == IF b = 0 THEN a ELSE GCD(b, a % b)

\* the float n / d, in lowest terms
FloatV(n, d) == [t |-> "float", n |-> n \div GCD(n, d), d |-> d \div GCD(n, d), s |-> <<>>]

\* str(n) for an int
RECURSIVE int_to_str(_)
int_to_str(n) ==
    IF n < 0 THEN <<"-">> \o int_to_str(0 - n)
    ELSE IF n < 10 THEN <<DIGITS[n + 1]>>
    ELSE int_to_str(n \div 10) \o <<DIGITS[(n % 10) + 1]>>

\* str(x) of one cell, as Series.astype(str) applies it
py_str(v) ==
    CASE v.t = "int" -> int_to_str(v.n)
      [] v.t = "str" -> v.s
      [] v.t = "null" -> <<"N", "o", "n", "e">>
      [] v.t = "nan" -> <<"n", "a", "n">>

CID_TOKEN == <<"c", "i", "d">>

\* a str.replace that removes the first occurrence only
RECURSIVE str_replace_first(_, _)
str_replace_first(s, old) ==
    IF Len(s) < Len(old) THEN s
    ELSE IF SubSeq(s, 1, Len(old)) = old THEN SubSeq(s, Len(old) + 1, Len(s))
    ELSE <<Head(s)>> \o str_replace_first(Tail(s), old)

\* s.replace(old, ""), regex=False: one left-to-right pass over s that skips
\* each match of old and copies every other character
RECURSIVE str_replace(_, _)
str_replace(s, old) ==
    IF Len(s) < Len(old) THEN s
    ELSE IF SubSeq(s, 1, Len(old)) = old
         THEN str_replace(SubSeq(s, Len(old) + 1, Len(s)), old)
    ELSE <<Head(s)>> \o str_replace(Tail(s), old)

----------------------------------------------------------------------------
(* Data frames *)

EmptyFrame == [columns |-> {}, rows |-> <<>>]

\* pd.DataFrame(list_of_dicts): the columns are the union of the records'
\* fields, a field a record lacks is the missing marker
pd_DataFrame(recs) ==
    LET cols == UNION {DOMAIN recs[i] : i \in 1..Len(recs)}
    IN  [columns |-> cols,
         rows |-> [i \in 1..Len(recs) |->
                     [c \in cols |-> IF c \in DOMAIN recs[i] THEN recs[i][c] ELSE NaNV]]]

\* df.rename(columns={old: new})
rename(df, old, new) ==
    LET cols == (df.columns \ {old}) \cup {new}
    IN  [columns |-> cols,
         rows |-> [i \in 1..Len(df.rows) |->
                     [c \in cols |-> IF c = new THEN df.rows[i][old] ELSE df.rows[i][c]]]]

\* df[col] = f(df[col]), with the new cells given per row
SetColumn(df, col, cells) ==
    [columns |-> df.columns \cup {col},
     rows |-> [i \in 1..Len(df.rows) |->
                 [c \in df.columns \cup {col} |->
                    IF c = col THEN cells[i] ELSE df.rows[i][c]]]]

Column(df, col) == [i \in 1..Len(df.rows) |-> df.rows[i][col]]

----------------------------------------------------------------------------
(* Transformations *)

\* a normaliser that forgets to rename id
normalize_feedback_df_norename(df) == df

normalize_feedback_df(df) ==
    IF "customer_id" \in df.columns THEN df
    ELSE IF "id" \in df.columns THEN rename(df, "id", "customer_id")
    ELSE df

normalize_customer_df(df) ==
    LET d1 == IF "customer_id" \notin df.columns /\ "customerId" \in df.columns
              THEN rename(df, "customerId", "customer_id")
              ELSE df
    IN  IF "customer_id" \notin d1.columns THEN d1
        ELSE SetColumn(d1, "customer_id",
                 [i \in 1..Len(d1.rows) |->
                    StrV(str_replace(py_str(d1.rows[i]["customer_id"]), CID_TOKEN))])

\* astype(str) of the key column of one frame
astype_str_key(df) ==
    IF "customer_id" \in df.columns
    THEN SetColumn(df, "customer_id",
             [i \in 1..Len(df.rows) |-> StrV(py_str(df.rows[i]["customer_id"]))])
    ELSE df

standardize_join_keys(feedback_df, customer_df) ==
    <<astype_str_key(feedback_df), astype_str_key(customer_df)>>

----------------------------------------------------------------------------
(* Idle values of the variables a specification does not use *)

NoResult == [ok |-> FALSE, data |-> [k |-> "null", map |-> EmptyMap],
             status |-> "none", error |-> "none"]

IdleRun ==
    /\ feedback_res = NoResult
    /\ customer_res = NoResult
    /\ merged_df = EmptyFrame
    /\ diag = EmptyMap
    /\ disk = EmptyMap
    /\ log = <<>>
    /\ exit_code = -1

RunVars == <<feedback_res, customer_res, merged_df, diag, disk, log, exit_code>>

----------------------------------------------------------------------------
(* normalize_customer_df on its own: NormSpec *)

IdAlphabet == {"c", "i", "d", "1"}

\* identifiers outside the alphabet: upper case, longer ones, numbers, None
ExtraIds ==
    {StrV(<<"C", "I", "D">>), StrV(<<"C", "i", "d", "1">>),
     StrV(<<"c", "i", "d", "1", "2", "3", "c", "i", "d">>),
     IntV(12), NullV}

NormIds == {StrV(s) : s \in SeqsUpTo(IdAlphabet, MaxIdLen)} \cup ExtraIds

NormIdColumns == {"customer_id", "customerId"}

NormInputs ==
    {pd_DataFrame(<<[c \in {col} |-> a]>>) : col \in NormIdColumns, a \in NormIds}
    \cup {pd_DataFrame(<<[c \in {col, "name"} |-> IF c = col THEN a ELSE StrV(<<"a">>)],
                         [c \in {col, "name"} |-> IF c = col THEN b ELSE StrV(<<"b">>)]>>) :
            col \in NormIdColumns \cup {"code"}, a \in ExtraIds, b \in ExtraIds}

NormInit ==
    /\ pc = "call"
    /\ arg \in NormInputs
    /\ ret = EmptyFrame
    /\ IdleRun

NormalizeCustomer ==
    /\ pc = "call"
    /\ ret' = normalize_customer_df(arg)
    /\ pc' = "returned"
    /\ UNCHANGED <<arg, RunVars>>

NormNext == NormalizeCustomer

NormSpec == NormInit /\ [][NormNext]_vars

\* the positions of s covered by an occurrence of the token "cid"
CidCovered(s) ==
    {j \in 1..Len(s) :
        \E i \in 1..(Len(s) - 2) :
            /\ SubSeq(s, i, i + 2) = <<"c", "i", "d">>
            /\ i <= j
            /\ j <= i + 2}

\* the characters of s at the positions outside Drop, in order
DeletePositions(s, Drop) ==
    LET F[i \in 0..Len(s)] ==
            IF i = 0 THEN <<>>
            ELSE IF i \in Drop THEN F[i - 1]
            ELSE Append(F[i - 1], s[i])
    IN  F[Len(s)]

\* the identifier cell of row i of a customer frame before normalisation
RawCustomerId(df, i) ==
    IF "customer_id" \in df.columns THEN df.rows[i]["customer_id"]
    ELSE df.rows[i]["customerId"]

----------------------------------------------------------------------------
(* HTTP & validation *)

NoneList == [some |-> FALSE, v |-> <<>>]
SomeList(v) == [some |-> TRUE, v |-> v]

\* Python None where a str is expected
NoneStr == "None"

\* a validator that accepts any list without looking at its elements
expect_list_under_key_noelems(obj, key) ==
    IF obj.k # "dict" THEN [ok |-> FALSE, list |-> NoneList, err |-> "top_level_not_dict"]
    ELSE IF key \notin DOMAIN obj.map
         THEN [ok |-> FALSE, list |-> NoneList, err |-> "missing_key:" \o key]
    ELSE IF obj.map[key].k # "list"
         THEN [ok |-> FALSE, list |-> NoneList, err |-> "value_not_list:" \o key]
    ELSE [ok |-> TRUE, list |-> SomeList(obj.map[key].items), err |-> NoneStr]

expect_list_under_key(obj, key) ==
    IF obj.k # "dict" THEN [ok |-> FALSE, list |-> NoneList, err |-> "top_level_not_dict"]
    ELSE IF key \notin DOMAIN obj.map
         THEN [ok |-> FALSE, list |-> NoneList, err |-> "missing_key:" \o key]
    ELSE LET val == obj.map[key]
         IN  IF val.k # "list"
             THEN [ok |-> FALSE, list |-> NoneList, err |-> "value_not_list:" \o key]
             ELSE IF val.items # <<>> /\ ~(\A i \in 1..Len(val.items) : val.items[i].k = "dict")
             THEN [ok |-> FALSE, list |-> NoneList,
                   err |-> "list_elements_not_dict:" \o key]
             ELSE [ok |-> TRUE, list |-> SomeList(val.items), err |-> NoneStr]

----------------------------------------------------------------------------
(* expect_list_under_key on its own: ShapeSpec *)

PAYLOAD_KEYS == {"feedback", "customers"}

JsonScalarKinds == {"str", "int", "null"}

Elem(k) == [k |-> k, rec |-> IF k = "dict" THEN [c \in {"id"} |-> IntV(1)] ELSE EmptyMap]

ShapeElems == {Elem(k) : k \in {"dict", "list", "str", "null"}}

KeyedValue(k, items) == [k |-> k, items |-> items]

ShapeValues ==
    {KeyedValue(k, <<>>) : k \in {"dict"} \cup JsonScalarKinds}
    \cup {KeyedValue("list", items) : items \in SeqsUpTo(ShapeElems, MaxShapeItems)}

JsonDoc(k, map) == [k |-> k, map |-> map]

ShapeObjs ==
    {JsonDoc(k, EmptyMap) : k \in {"dict", "list"} \cup JsonScalarKinds}
    \cup {JsonDoc("dict", [x \in {key} |-> v]) : key \in PAYLOAD_KEYS, v \in ShapeValues}
    \cup {JsonDoc("dict", [x \in PAYLOAD_KEYS |->
                              IF x = key THEN v ELSE KeyedValue("list", <<>>)]) :
            key \in PAYLOAD_KEYS, v \in ShapeValues}

ShapeInit ==
    /\ pc = "call"
    /\ \E o \in ShapeObjs, key \in PAYLOAD_KEYS : arg = [obj |-> o, key |-> key]
    /\ ret = [ok |-> FALSE, list |-> NoneList, err |-> NoneStr]
    /\ IdleRun

Validate ==
    /\ pc = "call"
    /\ ret' = expect_list_under_key(arg.obj, arg.key)
    /\ pc' = "returned"
    /\ UNCHANGED <<arg, RunVars>>

ShapeNext == Validate

ShapeSpec == ShapeInit /\ [][ShapeNext]_vars

Failure(reason) == [ok |-> FALSE, list |-> NoneList, err |-> reason]

\* C7: expect_list_under_key classifies every document into exactly one
\* outcome, in this order: not a mapping, key missing, keyed value not a list,
\* some element not a mapping, else success with that same list; an empty list
\* succeeds and a failure carries no list.
C7_ShapeClassified ==
    pc = "returned" =>
        LET obj == arg.obj
            key == arg.key
            isMap == obj.k = "dict"
            hasKey == isMap /\ key \in DOMAIN obj.map
            isList == hasKey /\ obj.map[key].k = "list"
            badElem == isList /\ \E i \in 1..Len(obj.map[key].items) :
                                      obj.map[key].items[i].k # "dict"
        IN  /\ ~isMap => ret = Failure("top_level_not_dict")
            /\ (isMap /\ ~hasKey) => ret = Failure("missing_key:" \o key)
            /\ (hasKey /\ ~isList) => ret = Failure("value_not_list:" \o key)
            /\ badElem => ret = Failure("list_elements_not_dict:" \o key)
            /\ (isList /\ ~badElem) =>
                   /\ ret.ok
                   /\ ret.list = SomeList(obj.map[key].items)
                   /\ ret.err = NoneStr
            /\ ~ret.ok => ~ret.list.some
            /\ ret.ok \/ ret.err \in {"top_level_not_dict", "missing_key:" \o key,
                                      "value_not_list:" \o key,
                                      "list_elements_not_dict:" \o key}

\* a list holding one non-mapping among mappings has been rejected
C7_Witness ==
    /\ pc = "returned"
    /\ arg.obj.k = "dict"
    /\ arg.key \in DOMAIN arg.obj.map
    /\ arg.obj.map[arg.key].k = "list"
    /\ Len(arg.obj.map[arg.key].items) = 3
    /\ Cardinality({i \in 1..3 : arg.obj.map[arg.key].items[i].k # "dict"}) = 1
    /\ ret = Failure("list_elements_not_dict:" \o arg.key)

\* an empty list under the key has been accepted
C7_WitnessEmpty ==
    /\ pc = "returned"
    /\ ret.ok
    /\ ret.list = SomeList(<<>>)

----------------------------------------------------------------------------
(* derive_fields *)

IsDigit(ch) == \E k \in 1..Len(DIGITS) : DIGITS[k] = ch

DigitValue(ch) == (CHOOSE k \in 1..Len(DIGITS) : DIGITS[k] = ch) - 1

\* the number a string of decimal digits denotes
RECURSIVE parse_digits(_)
parse_digits(s) ==
    IF s = <<>> THEN 0
    ELSE parse_digits(SubSeq(s, 1, Len(s) - 1)) * 10 + DigitValue(s[Len(s)])

\* pd.to_numeric(..., errors="coerce") of one cell: a number stays, a string of
\* digits is parsed, anything else becomes the missing marker
to_numeric(v) ==
    CASE v.t = "int" -> v
      [] v.t = "float" -> v
      [] v.t = "str" ->
            IF v.s # <<>> /\ \A i \in 1..Len(v.s) : IsDigit(v.s[i])
            THEN IntV(parse_digits(v.s))
            ELSE NaNV
      [] OTHER -> NaNV

\* a mean that does not skip missing values (skipna=False)
row_mean_noskip(a, b) ==
    IF a.t = "nan" \/ b.t = "nan" THEN NaNV
    ELSE FloatV(a.n * b.d + b.n * a.d, 2 * a.d * b.d)

\* DataFrame.mean(axis=1, skipna=True) over the two numeric cells of one row
row_mean(a, b) ==
    LET present == SelectSeq(<<a, b>>, LAMBDA v : v.t # "nan")
    IN  IF Len(present) = 0 THEN NaNV
        ELSE IF Len(present) = 1 THEN FloatV(present[1].n, present[1].d)
        ELSE FloatV(a.n * b.d + b.n * a.d, 2 * a.d * b.d)

SURVEY_FIELDS == {"survey_q1", "survey_q2"}

derive_fields(df) ==
    IF SURVEY_FIELDS \subseteq df.columns
    THEN LET q1 == [i \in 1..Len(df.rows) |-> to_numeric(df.rows[i]["survey_q1"])]
             q2 == [i \in 1..Len(df.rows) |-> to_numeric(df.rows[i]["survey_q2"])]
             d1 == SetColumn(df, "survey_q1", q1)
             d2 == SetColumn(d1, "survey_q2", q2)
         IN  SetColumn(d2, "avg_survey_score",
                 [i \in 1..Len(df.rows) |-> row_mean(q1[i], q2[i])])
    ELSE df

----------------------------------------------------------------------------
(* derive_fields on its own: DeriveSpec *)

SurveyCells ==
    {IntV(5), IntV(3), IntV(2), StrV(<<"5">>), StrV(<<"7">>), StrV(<<"x">>), NullV}

DeriveFrames ==
    {[columns |-> cols \cup {"name"},
      rows |-> [i \in 1..Len(cells) |->
                  [c \in cols \cup {"name"} |->
                     IF c = "survey_q1" THEN cells[i][1]
                     ELSE IF c = "survey_q2" THEN cells[i][2]
                     ELSE StrV(int_to_str(i))]]] :
        cols \in SUBSET SURVEY_FIELDS,
        cells \in SeqsUpTo(SurveyCells \X SurveyCells, MaxDeriveRows)}

DeriveInit ==
    /\ pc = "call"
    /\ arg \in DeriveFrames
    /\ ret = EmptyFrame
    /\ IdleRun

Derive ==
    /\ pc = "call"
    /\ ret' = derive_fields(arg)
    /\ pc' = "returned"
    /\ UNCHANGED <<arg, RunVars>>

DeriveNext == Derive

DeriveSpec == DeriveInit /\ [][DeriveNext]_vars

\* the number a survey cell counts as, if any
IsNumber(v) == to_numeric(v).t = "int"
NumberOf(v) == to_numeric(v).n

\* avg_survey_score is added exactly when both survey columns exist, holds
\* the mean of the row's numbers, and the row count is kept
C9_AvgColumn ==
    /\ ("avg_survey_score" \in ret.columns) <=> (SURVEY_FIELDS \subseteq arg.columns)
    /\ Len(ret.rows) = Len(arg.rows)
    /\ SURVEY_FIELDS \subseteq arg.columns =>
         /\ ret.columns = arg.columns \cup {"avg_survey_score"}
         /\ \A i \in 1..Len(arg.rows) :
              LET a == arg.rows[i]["survey_q1"]
                  b == arg.rows[i]["survey_q2"]
                  avg == ret.rows[i]["avg_survey_score"]
              IN  /\ (IsNumber(a) /\ IsNumber(b)) =>
                         /\ avg.t = "float"
                         /\ 2 * avg.n = (NumberOf(a) + NumberOf(b)) * avg.d
                  /\ (IsNumber(a) /\ ~IsNumber(b)) =>
                         avg.t = "float" /\ avg.n = NumberOf(a) * avg.d
                  /\ (~IsNumber(a) /\ IsNumber(b)) =>
                         avg.t = "float" /\ avg.n = NumberOf(b) * avg.d
                  /\ (~IsNumber(a) /\ ~IsNumber(b)) => avg = NaNV
                  /\ (a = IntV(5) /\ b = IntV(3)) => avg = FloatV(4, 1)
                  /\ (a = StrV(<<"5">>) /\ b = StrV(<<"7">>)) => avg = FloatV(6, 1)
                  /\ a = StrV(<<"x">>) => ~IsNumber(a)
    /\ ~(SURVEY_FIELDS \subseteq arg.columns) => ret = arg

\* two cells that show the same value: equal, both missing, or the same number
SameValue(a, b) ==
    \/ a = b
    \/ a.t \in {"null", "nan"} /\ b.t \in {"null", "nan"}
    \/ IsNumber(a) /\ IsNumber(b) /\ NumberOf(a) = NumberOf(b)

\* C9 as stated: besides the above, no column of the input changes its values
\* (a number read from its string, or one missing marker for another, is
\* counted as no change).
C9_Original ==
    pc = "returned" =>
        /\ C9_AvgColumn
        /\ \A c \in arg.columns : \A i \in 1..Len(arg.rows) :
               SameValue(ret.rows[i][c], arg.rows[i][c])

\* C9: derive_fields adds avg_survey_score iff both survey columns exist; each
\* value is the mean of the row's two values after numeric coercion, skipping
\* missing ones; the row count and every column other than survey_q1 and
\* survey_q2 are unchanged, and those two are replaced by their numeric
\* coercions when the column is added.
C9_Derived ==
    pc = "returned" =>
        /\ C9_AvgColumn
        /\ \A c \in arg.columns \ SURVEY_FIELDS : Column(ret, c) = Column(arg, c)
        /\ SURVEY_FIELDS \subseteq arg.columns =>
             \A c \in SURVEY_FIELDS : \A i \in 1..Len(arg.rows) :
                 /\ ret.rows[i][c].t \in {"int", "nan"}
                 /\ arg.rows[i][c].t = "int" => ret.rows[i][c] = arg.rows[i][c]
                 /\ arg.rows[i][c] = StrV(<<"7">>) => ret.rows[i][c] = IntV(7)
                 /\ arg.rows[i][c] \in {StrV(<<"x">>), NullV} => ret.rows[i][c] = NaNV

\* a row with one unparseable and one numeric value got the numeric one as mean
C9_Witness ==
    /\ pc = "returned"
    /\ SURVEY_FIELDS \subseteq arg.columns
    /\ Len(arg.rows) = 2
    /\ arg.rows[1]["survey_q1"] = StrV(<<"x">>)
    /\ arg.rows[1]["survey_q2"] = IntV(3)
    /\ ret.rows[1]["avg_survey_score"] = FloatV(3, 1)
    /\ arg.rows[2]["survey_q1"] = IntV(5)
    /\ arg.rows[2]["survey_q2"] = IntV(2)
    /\ ret.rows[2]["avg_survey_score"] = FloatV(7, 2)

----------------------------------------------------------------------------
(* Join & diagnostics *)

\* the order pandas sorts group keys in: numbers by value, strings by code
\* point, missing keys last
CellLess(a, b) ==
    CASE a.t \in {"null", "nan"} -> FALSE
      [] b.t \in {"null", "nan"} -> TRUE
      [] a.t = "str" /\ b.t = "str" -> StrLess(a.s, b.s)
      [] a.t = "str" -> FALSE
      [] b.t = "str" -> TRUE
      [] OTHER -> a.n * b.d < b.n * a.d

\* the elements of a set of cells in ascending order
RECURSIVE SortCells(_)
SortCells(S) ==
    IF S = {} THEN <<>>
    ELSE LET m == CHOOSE x \in S : \A y \in S \ {x} : CellLess(x, y)
         IN  <<m>> \o SortCells(S \ {m})

\* the distinct elements of a sequence in order of first occurrence
RECURSIVE Unique(_)
Unique(s) ==
    IF s = <<>> THEN <<>>
    ELSE LET u == Unique(SubSeq(s, 1, Len(s) - 1))
         IN  IF s[Len(s)] \in Range(u) THEN u ELSE Append(u, s[Len(s)])

\* a count of the rows instead of the distinct keys
nunique_rows(col) == Len(col)

\* Series.nunique(dropna=True)
nunique(col) == Cardinality({v \in Range(col) : v.t \notin {"null", "nan"}})

\* group keys in order of first appearance (sort=False)
groupby_keys_unsorted(col) == Unique(col)

\* the index of union.groupby(["customer_id"], dropna=False): the distinct
\* keys, sorted
groupby_keys(col) == SortCells(Range(col))

\* Index.intersection(other): the entries of idx that occur in other, in the
\* order of idx
index_intersection(idx, other) == SelectSeq(idx, LAMBDA k : k \in Range(other))

SAMPLE_SIZE == 5

\* the only-left and only-right keys of two key columns
key_mismatches(left, right) ==
    LET union == [i \in 1..(Len(left) + Len(right)) |->
                    IF i <= Len(left) THEN <<left[i], "left">>
                    ELSE <<right[i - Len(left)], "right">>]
        keys == groupby_keys([i \in 1..Len(union) |-> union[i][1]])
        counts == [k \in Range(keys) |->
                     Cardinality({union[i][2] : i \in {j \in 1..Len(union) : union[j][1] = k}})]
        single == SelectSeq(keys, LAMBDA k : counts[k] = 1)
        only_left_ids == index_intersection(single, left)
        only_right_ids == index_intersection(single, right)
    IN  [left_only_count |-> Len(only_left_ids),
         right_only_count |-> Len(only_right_ids),
         left_only_sample |-> [i \in 1..Len(Take(only_left_ids, SAMPLE_SIZE)) |->
                                 py_str(only_left_ids[i])],
         right_only_sample |-> [i \in 1..Len(Take(only_right_ids, SAMPLE_SIZE)) |->
                                  py_str(only_right_ids[i])]]

KEY == "customer_id"

\* the columns of left.merge(right, on="customer_id"): shared columns other
\* than the key get the suffixes _x and _y
merged_columns(lc, rc) ==
    {KEY} \cup (lc \ rc) \cup (rc \ lc)
    \cup {c \o "_x" : c \in (lc \cap rc) \ {KEY}}
    \cup {c \o "_y" : c \in (lc \cap rc) \ {KEY}}

merged_row(l, r) ==
    LET lc == DOMAIN l
        rc == DOMAIN r
    IN  [c \in merged_columns(lc, rc) |->
           IF c = KEY \/ c \in lc \ rc THEN l[c]
           ELSE IF c \in rc \ lc THEN r[c]
           ELSE LET o == CHOOSE x \in (lc \cap rc) \ {KEY} : c \in {x \o "_x", x \o "_y"}
                IN  IF c = o \o "_x" THEN l[o] ELSE r[o]]

\* the rows of right that match the row l, joined to it, in the order of right
RECURSIVE match_rows(_, _)
match_rows(l, rrows) ==
    IF rrows = <<>> THEN <<>>
    ELSE (IF Head(rrows)[KEY] = l[KEY] THEN <<merged_row(l, Head(rrows))>> ELSE <<>>)
         \o match_rows(l, Tail(rrows))

\* a join that keeps one row per left row (the first match only)
RECURSIVE merge_first_match(_, _)
merge_first_match(lrows, rrows) ==
    IF lrows = <<>> THEN <<>>
    ELSE Take(match_rows(Head(lrows), rrows), 1) \o merge_first_match(Tail(lrows), rrows)

\* the rows of left.merge(right, on="customer_id", how="inner",
\* validate="many_to_many"): every left row against every right row of the
\* same key, in the order of left
RECURSIVE merge_rows(_, _)
merge_rows(lrows, rrows) ==
    IF lrows = <<>> THEN <<>>
    ELSE match_rows(Head(lrows), rrows) \o merge_rows(Tail(lrows), rrows)

missing_join_key(feedback_df, customer_df) ==
    KEY \notin feedback_df.columns \/ KEY \notin customer_df.columns

\* returns <<merged, diagnostics>>
merge_with_diagnostics(feedback_df, customer_df) ==
    IF missing_join_key(feedback_df, customer_df)
    THEN <<EmptyFrame,
           [k \in {"missing_join_key"} |->
              [feedback_has_customer_id |-> KEY \in feedback_df.columns,
               customer_has_customer_id |-> KEY \in customer_df.columns]]>>
    ELSE LET left == Column(feedback_df, KEY)
             right == Column(customer_df, KEY)
             merged == [columns |-> merged_columns(feedback_df.columns, customer_df.columns),
                        rows |-> merge_rows(feedback_df.rows, customer_df.rows)]
             pre == [feedback_rows |-> Len(feedback_df.rows),
                     customer_rows |-> Len(customer_df.rows),
                     feedback_unique_ids |-> nunique(left),
                     customer_unique_ids |-> nunique(right)]
             post == [merged_rows |-> Len(merged.rows),
                      merge_ratio_vs_feedback |->
                          FloatV(Len(merged.rows), Max(1, Len(feedback_df.rows))),
                      merge_ratio_vs_customer |->
                          FloatV(Len(merged.rows), Max(1, Len(customer_df.rows)))]
         IN  <<merged,
               [k \in {"pre_merge", "key_mismatches", "post_merge"} |->
                  CASE k = "pre_merge" -> pre
                    [] k = "key_mismatches" -> key_mismatches(left, right)
                    [] k = "post_merge" -> post]>>

----------------------------------------------------------------------------
(* standardize_join_keys and merge_with_diagnostics on their own: JoinSpec *)

JoinCells ==
    {IntV(1), StrV(<<"2">>), IntV(2), StrV(<<"3">>)}

\* five more feedback rows, their keys not in ascending order
LeftBlock ==
    <<StrV(<<"x">>), StrV(<<"5">>), StrV(<<"c">>), IntV(10), StrV(<<"b">>)>>

\* eight more customer rows: six keys of their own, and the key 2 twice
RightBlock ==
    <<StrV(<<"d">>), IntV(30), StrV(<<"9">>), StrV(<<"2">>), StrV(<<"4">>), StrV(<<"e">>),
      StrV(<<"6">>), IntV(2)>>

\* a frame of the given key cells, each row marked with its position
KeyFrame(cells, marker) ==
    [columns |-> {KEY, marker},
     rows |-> [i \in 1..Len(cells) |->
                 [c \in {KEY, marker} |-> IF c = KEY THEN cells[i] ELSE IntV(i)]]]

JoinInit ==
    /\ pc = "call"
    /\ \E l \in SeqsUpTo(JoinCells, MaxJoinLeft), lb \in {<<>>, LeftBlock},
          r \in SeqsUpTo(JoinCells, MaxJoinRight), rb \in {<<>>, RightBlock} :
            /\ l \o lb # <<>>
            /\ r \o rb # <<>>
            /\ arg = [feedback_df |-> KeyFrame(l \o lb, "f"),
                      customer_df |-> KeyFrame(r \o rb, "c")]
    /\ ret = <<EmptyFrame, EmptyMap>>
    /\ IdleRun

Join ==
    /\ pc = "call"
    /\ LET std == standardize_join_keys(arg.feedback_df, arg.customer_df)
       IN  ret' = merge_with_diagnostics(std[1], std[2])
    /\ pc' = "returned"
    /\ UNCHANGED <<arg, RunVars>>

JoinNext == Join

JoinSpec == JoinInit /\ [][JoinNext]_vars

\* the join keys of the two inputs as the join sees them: str(cell)
LeftKeySeq == [i \in 1..Len(arg.feedback_df.rows) |-> py_str(arg.feedback_df.rows[i][KEY])]
RightKeySeq == [i \in 1..Len(arg.customer_df.rows) |-> py_str(arg.customer_df.rows[i][KEY])]

Occurrences(keys, k) == Cardinality({i \in 1..Len(keys) : keys[i] = k})

SharedKeys == Range(LeftKeySeq) \cap Range(RightKeySeq)
LeftOnlyKeys == Range(LeftKeySeq) \ Range(RightKeySeq)
RightOnlyKeys == Range(RightKeySeq) \ Range(LeftKeySeq)

\* C3: the join is a many-to-many inner equality join: the merged row count,
\* also reported as post_merge.merged_rows, is the sum over the keys on both
\* sides of (left rows with the key) x (right rows with the key); the merged
\* rows are exactly the pairs of a left and a right row with equal keys, each
\* once, so one-sided keys give no row.
C3_CrossProduct ==
    pc = "returned" =>
        LET merged == ret[1]
            expected == SumSet(SharedKeys,
                               [k \in SharedKeys |->
                                  Occurrences(LeftKeySeq, k) * Occurrences(RightKeySeq, k)])
            pairs == {<<merged.rows[n]["f"].n, merged.rows[n]["c"].n>> :
                        n \in 1..Len(merged.rows)}
        IN  /\ Len(merged.rows) = expected
            /\ ret[2]["post_merge"].merged_rows = expected
            /\ Cardinality(pairs) = Len(merged.rows)
            /\ pairs = {<<i, j>> \in (1..Len(LeftKeySeq)) \X (1..Len(RightKeySeq)) :
                          LeftKeySeq[i] = RightKeySeq[j]}
            /\ \A n \in 1..Len(merged.rows) :
                  py_str(merged.rows[n][KEY]) \in SharedKeys

\* a key twice on each side gave four rows, next to a one-sided key
C3_Witness ==
    /\ pc = "returned"
    /\ \E k \in SharedKeys :
          Occurrences(LeftKeySeq, k) = 2 /\ Occurrences(RightKeySeq, k) = 2
    /\ LeftOnlyKeys # {}
    /\ Len(ret[1].rows) = 4

\* C4: left_only_count plus the number of keys on both sides is
\* feedback_unique_ids, right_only_count plus that number is
\* customer_unique_ids, and the two counts add up to the size of the symmetric
\* difference of the key sets, duplicates or not.
C4_MismatchCounts ==
    pc = "returned" =>
        LET km == ret[2]["key_mismatches"]
            pre == ret[2]["pre_merge"]
        IN  /\ km.left_only_count + Cardinality(SharedKeys) = pre.feedback_unique_ids
            /\ km.right_only_count + Cardinality(SharedKeys) = pre.customer_unique_ids
            /\ km.left_only_count + km.right_only_count
                 = Cardinality(LeftOnlyKeys \cup RightOnlyKeys)
            /\ pre.feedback_unique_ids = Cardinality(Range(LeftKeySeq))
            /\ pre.customer_unique_ids = Cardinality(Range(RightKeySeq))

\* duplicate keys on both sides, with shared and one-sided keys present
C4_Witness ==
    /\ pc = "returned"
    /\ Len(LeftKeySeq) > Cardinality(Range(LeftKeySeq))
    /\ Len(RightKeySeq) > Cardinality(Range(RightKeySeq))
    /\ SharedKeys # {}
    /\ ret[2]["key_mismatches"].left_only_count > 0
    /\ ret[2]["key_mismatches"].right_only_count > 0

FirstIndex(keys, k) == CHOOSE i \in 1..Len(keys) : keys[i] = k /\ \A j \in 1..(i - 1) : keys[j] # k

\* a sample holds min(5, count) distinct keys of its side only
SampleOf(sample, count, only) ==
    /\ Len(sample) = Min(5, count)
    /\ count = Cardinality(only)
    /\ Range(sample) \subseteq only
    /\ Cardinality(Range(sample)) = Len(sample)

\* C8 as stated: the samples list their keys in the order of first occurrence
\* in that side's rows.
C8_Original ==
    pc = "returned" =>
        LET km == ret[2]["key_mismatches"]
        IN  /\ SampleOf(km.left_only_sample, km.left_only_count, LeftOnlyKeys)
            /\ SampleOf(km.right_only_sample, km.right_only_count, RightOnlyKeys)
            /\ \A i, j \in 1..Len(km.left_only_sample) :
                  i < j => FirstIndex(LeftKeySeq, km.left_only_sample[i])
                             < FirstIndex(LeftKeySeq, km.left_only_sample[j])
            /\ \A i, j \in 1..Len(km.right_only_sample) :
                  i < j => FirstIndex(RightKeySeq, km.right_only_sample[i])
                             < FirstIndex(RightKeySeq, km.right_only_sample[j])

\* the smallest keys of a set, in ascending string order
SmallestAscending(sample, only) ==
    /\ \A i \in 1..(Len(sample) - 1) : StrLess(sample[i], sample[i + 1])
    /\ \A k \in only \ Range(sample) : \A i \in 1..Len(sample) : StrLess(sample[i], k)

\* C8: left_only_sample (right_only_sample) holds min(5, left_only_count)
\* (min(5, right_only_count)) distinct keys as strings, each a key of that side
\* and not of the other: the smallest such keys in ascending string order (the
\* sorted order of the group keys), whatever the order of the input rows; left
\* keys 1, 2 against right keys 2, 3 give ["1"] and ["3"].
C8_SortedSamples ==
    pc = "returned" =>
        LET km == ret[2]["key_mismatches"]
        IN  /\ SampleOf(km.left_only_sample, km.left_only_count, LeftOnlyKeys)
            /\ SampleOf(km.right_only_sample, km.right_only_count, RightOnlyKeys)
            /\ SmallestAscending(km.left_only_sample, LeftOnlyKeys)
            /\ SmallestAscending(km.right_only_sample, RightOnlyKeys)
            /\ (LeftKeySeq = <<<<"1">>, <<"2">>>> /\ RightKeySeq = <<<<"2">>, <<"3">>>>) =>
                   /\ km.left_only_sample = <<<<"1">>>>
                   /\ km.right_only_sample = <<<<"3">>>>

\* more than five left-only keys were cut to five, listed in sorted order and
\* not in the order of the rows
C8_Witness ==
    /\ pc = "returned"
    /\ ret[2]["key_mismatches"].left_only_count > 5
    /\ Len(ret[2]["key_mismatches"].left_only_sample) = 5
    /\ FirstIndex(LeftKeySeq, ret[2]["key_mismatches"].left_only_sample[1])
         > FirstIndex(LeftKeySeq, ret[2]["key_mismatches"].left_only_sample[2])
    /\ Len(LeftKeySeq) > Cardinality(Range(LeftKeySeq))

----------------------------------------------------------------------------
(* Orchestration: run(output_dir, output_csv) *)

FEEDBACK_URL == "https://undsicdm3f.execute-api.us-east-2.amazonaws.com/prod/feedback"
CUSTOMER_URL == "https://undsicdm3f.execute-api.us-east-2.amazonaws.com/prod/customers"
OUTPUT_DIR == "output"
OUTPUT_CSV == "customer_feedback.csv"
DIAG_FILENAME == "run_diagnostics.json"

\* d[k] = v on a dict
DictSet(d, k, v) == [x \in DOMAIN d \cup {k} |-> IF x = k THEN v ELSE d[x]]

\* d.update(e)
DictUpdate(d, e) == [x \in DOMAIN d \cup DOMAIN e |-> IF x \in DOMAIN e THEN e[x] ELSE d[x]]

NoneDoc == [k |-> "null", map |-> EmptyMap]

\* fetch_json on what the endpoint does: the request raises (also for an HTTP
\* error status, through raise_for_status), the body is not JSON, or it is
fetch_json(resp) ==
    CASE resp.kind \in {"exception", "http_error"} ->
            [ok |-> FALSE, data |-> NoneDoc, status |-> NoneStr, error |-> "request_exception"]
      [] resp.kind = "invalid_json" ->
            [ok |-> FALSE, data |-> NoneDoc, status |-> resp.status, error |-> "invalid_json"]
      [] resp.kind = "json" ->
            [ok |-> TRUE, data |-> resp.body, status |-> resp.status, error |-> NoneStr]

\* a diagnostics writer that reports success without leaving the file
_write_diagnostics_lost(files, dg, fs_ok) ==
    [disk |-> files,
     msg |-> IF fs_ok THEN "Diagnostics written" ELSE "Could not write diagnostics file"]

\* _write_diagnostics: the file is written when makedirs, open and json.dump
\* succeed (fs_ok); any exception is logged as a warning and swallowed
_write_diagnostics(files, dg, fs_ok) ==
    IF fs_ok
    THEN [disk |-> DictSet(files, DIAG_FILENAME, dg), msg |-> "Diagnostics written"]
    ELSE [disk |-> files, msg |-> "Could not write diagnostics file"]

\* a fetch check that gives up only when both sources failed
fetch_failed_both(fr, cr) == ~(fr.ok \/ cr.ok)

\* not (feedback_res.ok and customer_res.ok)
fetch_failed(fr, cr) == ~(fr.ok /\ cr.ok)

\* an emptiness test that never reports an empty frame
df_empty_never(df) == FALSE

\* DataFrame.empty: some axis has length 0
df_empty(df) == df.columns = {} \/ Len(df.rows) = 0

\* the records of a validated list, as pd.DataFrame(list or []) takes them
records_of(list) == [i \in 1..Len(list.v) |-> list.v[i].rec]

HttpEntry(res) == [ok |-> res.ok, status |-> res.status, error |-> res.error]

FeedbackCells == {StrV(<<"1">>), IntV(1), StrV(<<"2">>)}
CustomerCells == {StrV(<<"1">>), StrV(<<"c", "i", "d", "1">>), IntV(2)}

FeedbackRecord(idcol, cell, survey) ==
    [c \in (IF idcol = "none" THEN {"comment"} ELSE {idcol})
           \cup (IF survey THEN SURVEY_FIELDS ELSE {}) |->
        CASE c = idcol -> cell
          [] c = "comment" -> StrV(<<"a">>)
          [] c = "survey_q1" -> IntV(5)
          [] c = "survey_q2" -> IntV(3)]

CustomerRecord(idcol, cell) ==
    [c \in (IF idcol = "none" THEN {} ELSE {idcol}) \cup {"name"} |->
        IF c = idcol THEN cell ELSE StrV(<<"a">>)]

RecordElem(rec) == [k |-> "dict", rec |-> rec]

FeedbackLists ==
    {<<>>}
    \cup {[i \in 1..Len(cells) |-> RecordElem(FeedbackRecord(idcol, cells[i], survey))] :
            idcol \in {"customer_id", "id"}, survey \in BOOLEAN,
            cells \in SeqsUpTo(FeedbackCells, MaxRows) \ {<<>>}}
    \cup {[i \in 1..n |-> RecordElem(FeedbackRecord("none", NullV, survey))] :
            survey \in BOOLEAN, n \in 1..MaxRows}

CustomerLists ==
    {<<>>}
    \cup {[i \in 1..Len(cells) |-> RecordElem(CustomerRecord(idcol, cells[i]))] :
            idcol \in {"customer_id", "customerId"},
            cells \in SeqsUpTo(CustomerCells, MaxRows) \ {<<>>}}
    \cup {[i \in 1..n |-> RecordElem(CustomerRecord("none", NullV))] : n \in 1..MaxRows}

ListDoc(key, items) == JsonDoc("dict", [x \in {key} |-> KeyedValue("list", items)])

BadDocs(key) ==
    {JsonDoc("list", EmptyMap), JsonDoc("null", EmptyMap), JsonDoc("dict", EmptyMap),
     JsonDoc("dict", [x \in {key} |-> KeyedValue("dict", <<>>)]),
     ListDoc(key, <<Elem("dict"), Elem("null")>>)}

Responses(key, lists) ==
    {[kind |-> "exception", status |-> NoneStr, body |-> NoneDoc],
     [kind |-> "http_error", status |-> "500", body |-> NoneDoc],
     [kind |-> "invalid_json", status |-> "200", body |-> NoneDoc]}
    \cup {[kind |-> "json", status |-> "200", body |-> doc] :
            doc \in BadDocs(key) \cup {ListDoc(key, items) : items \in lists}}

Init ==
    /\ pc = "start"
    /\ feedback_res = NoResult
    /\ customer_res = NoResult
    /\ merged_df = EmptyFrame
    /\ diag = [k \in {"feedback_url", "customer_url"} |->
                 IF k = "feedback_url" THEN FEEDBACK_URL ELSE CUSTOMER_URL]
    /\ disk = EmptyMap
    /\ log = <<>>
    /\ exit_code = -1
    /\ arg = <<>>
    /\ ret = <<>>

\* both fetches, then the network check
Fetch ==
    /\ pc = "start"
    /\ \E fresp \in Responses("feedback", FeedbackLists),
          cresp \in Responses("customers", CustomerLists),
          fs_ok \in BOOLEAN :
          LET fr == fetch_json(fresp)
              cr == fetch_json(cresp)
              d1 == DictSet(diag, "http",
                            [feedback |-> HttpEntry(fr), customer |-> HttpEntry(cr)])
              w == _write_diagnostics(disk, d1, fs_ok)
          IN  /\ feedback_res' = fr
              /\ customer_res' = cr
              /\ diag' = d1
              /\ IF fetch_failed(fr, cr)
                 THEN /\ disk' = w.disk
                      /\ log' = Append(log, w.msg)
                      /\ exit_code' = 1
                      /\ pc' = "done"
                 ELSE /\ fs_ok
                      /\ UNCHANGED <<disk, log, exit_code>>
                      /\ pc' = "validate"
    /\ UNCHANGED <<merged_df, arg, ret>>

\* shape validation of both payloads
ValidateShapes ==
    /\ pc = "validate"
    /\ \E fs_ok \in BOOLEAN :
          LET f == expect_list_under_key(feedback_res.data, "feedback")
              c == expect_list_under_key(customer_res.data, "customers")
              d1 == DictSet(diag, "shape",
                            [feedback |-> IF f.err = NoneStr THEN "ok" ELSE f.err,
                             customers |-> IF c.err = NoneStr THEN "ok" ELSE c.err])
              w == _write_diagnostics(disk, d1, fs_ok)
          IN  /\ diag' = d1
              /\ IF ~(f.ok /\ c.ok)
                 THEN /\ disk' = w.disk
                      /\ log' = log \o <<"Unexpected response shapes", w.msg>>
                      /\ exit_code' = 2
                      /\ pc' = "done"
                 ELSE /\ fs_ok
                      /\ UNCHANGED <<disk, log, exit_code>>
                      /\ pc' = "join"
    /\ UNCHANGED <<feedback_res, customer_res, merged_df, arg, ret>>

\* data frames, normalisation, key standardisation, join, empty check
JoinFrames ==
    /\ pc = "join"
    /\ \E fs_ok \in BOOLEAN :
          LET f == expect_list_under_key(feedback_res.data, "feedback")
              c == expect_list_under_key(customer_res.data, "customers")
              feedback_df == normalize_feedback_df(pd_DataFrame(records_of(f.list)))
              customer_df == normalize_customer_df(pd_DataFrame(records_of(c.list)))
              std == standardize_join_keys(feedback_df, customer_df)
              m == merge_with_diagnostics(std[1], std[2])
              d1 == DictUpdate(diag, m[2])
              w == _write_diagnostics(disk, d1, fs_ok)
          IN  /\ merged_df' = m[1]
              /\ diag' = d1
              /\ IF df_empty(m[1])
                 THEN /\ disk' = w.disk
                      /\ log' = log \o <<"Merge produced 0 rows", w.msg>>
                      /\ exit_code' = 3
                      /\ pc' = "done"
                 ELSE /\ fs_ok
                      /\ UNCHANGED <<disk, log, exit_code>>
                      /\ pc' = "output"
    /\ UNCHANGED <<feedback_res, customer_res, arg, ret>>

\* derived field, then the CSV and the diagnostics; csv is what makedirs and
\* to_csv do
Output ==
    /\ pc = "output"
    /\ \E csv \in {"ok", "makedirs_failed", "to_csv_failed"}, fs_ok \in BOOLEAN :
          LET derived == derive_fields(merged_df)
              out_path == OUTPUT_DIR \o "/" \o OUTPUT_CSV
              d1 == DictSet(diag, "output_csv", out_path)
              w0 == _write_diagnostics(DictSet(disk, OUTPUT_CSV, derived), d1, fs_ok)
              w4 == _write_diagnostics(disk, diag, fs_ok)
          IN  /\ merged_df' = derived
              /\ IF csv = "ok"
                 THEN /\ diag' = d1
                      /\ disk' = w0.disk
                      /\ log' = log \o <<w0.msg, "CSV written">>
                      /\ exit_code' = 0
                 ELSE /\ diag' = diag
                      /\ disk' = w4.disk
                      /\ log' = log \o <<"Failed to write CSV", w4.msg>>
                      /\ exit_code' = 4
              /\ pc' = "done"
    /\ UNCHANGED <<feedback_res, customer_res, arg, ret>>

Next == Fetch \/ ValidateShapes \/ JoinFrames \/ Output

Spec == Init /\ [][Next]_vars

----------------------------------------------------------------------------
(* What the fetched payloads are, read off the documents themselves *)

DocWellShaped(doc, key) ==
    /\ doc.k = "dict"
    /\ key \in DOMAIN doc.map
    /\ doc.map[key].k = "list"
    /\ \A i \in 1..Len(doc.map[key].items) : doc.map[key].items[i].k = "dict"

BothFetched == feedback_res.ok /\ customer_res.ok

BothShaped ==
    /\ DocWellShaped(feedback_res.data, "feedback")
    /\ DocWellShaped(customer_res.data, "customers")

FeedbackItems == feedback_res.data.map["feedback"].items
CustomerItems == customer_res.data.map["customers"].items

FeedbackIdFields == {"customer_id", "id"}
CustomerIdFields == {"customer_id", "customerId"}

FeedbackHasKey == \E i \in 1..Len(FeedbackItems) : DOMAIN FeedbackItems[i].rec \cap FeedbackIdFields # {}
CustomerHasKey == \E i \in 1..Len(CustomerItems) : DOMAIN CustomerItems[i].rec \cap CustomerIdFields # {}

\* the join key a feedback record ends up with
FeedbackKeyOf(rec) ==
    py_str(IF "customer_id" \in DOMAIN rec THEN rec["customer_id"] ELSE rec["id"])

\* the join key a customer record ends up with
CustomerKeyOf(rec) ==
    LET txt == py_str(IF "customer_id" \in DOMAIN rec THEN rec["customer_id"]
                      ELSE rec["customerId"])
    IN  DeletePositions(txt, CidCovered(txt))

\* some feedback record and some customer record carry the same join key
JoinHasRows ==
    /\ FeedbackHasKey
    /\ CustomerHasKey
    /\ \E i \in 1..Len(FeedbackItems), j \in 1..Len(CustomerItems) :
          FeedbackKeyOf(FeedbackItems[i].rec) = CustomerKeyOf(CustomerItems[j].rec)

CsvWritten == OUTPUT_CSV \in DOMAIN disk
DiagOnDisk == DIAG_FILENAME \in DOMAIN disk

DiagMessages == {"Diagnostics written", "Could not write diagnostics file"}

\* the number of calls of _write_diagnostics so far, each logs one message
DiagAttempts == Cardinality({i \in 1..Len(log) : log[i] \in DiagMessages})

RunKeys == {"feedback_url", "customer_url"}
JoinKeys == {"missing_join_key", "pre_merge", "key_mismatches", "post_merge"}

C1_WitnessLost ==
    /\ pc = "done"
    /\ exit_code = 4
    /\ ~DiagOnDisk

\* C2: run returns exactly one of 0..4, the earliest failing stage deciding:
\* 1 iff a fetch failed (both fetches are made and recorded), else 2 iff a
\* payload is ill-shaped, else 3 iff the join has no rows, else 4 iff the CSV
\* was not persisted, else 0; no later stage runs after a failed one and 0
\* means the CSV is on disk.
C2_ExitCodes ==
    /\ pc # "done" => exit_code = -1
    /\ pc = "done" =>
         /\ exit_code \in 0..4
         /\ exit_code = (IF ~BothFetched THEN 1
                         ELSE IF ~BothShaped THEN 2
                         ELSE IF ~JoinHasRows THEN 3
                         ELSE IF ~CsvWritten THEN 4
                         ELSE 0)
         /\ diag["http"] = [feedback |-> HttpEntry(feedback_res),
                            customer |-> HttpEntry(customer_res)]
         /\ exit_code = 1 =>
              /\ DOMAIN diag = RunKeys \cup {"http"}
              /\ merged_df = EmptyFrame
              /\ ~CsvWritten
         /\ exit_code = 2 =>
              /\ DOMAIN diag = RunKeys \cup {"http", "shape"}
              /\ merged_df = EmptyFrame
              /\ ~CsvWritten
         /\ exit_code = 3 =>
              /\ Len(merged_df.rows) = 0
              /\ "avg_survey_score" \notin merged_df.columns
              /\ "output_csv" \notin DOMAIN diag
              /\ ~CsvWritten
         /\ exit_code = 4 => "output_csv" \notin DOMAIN diag
         /\ exit_code = 0 =>
              /\ CsvWritten
              /\ disk[OUTPUT_CSV] = merged_df
              /\ Len(merged_df.rows) > 0

\* the feedback fetch failed while the customer payload arrived ill-shaped:
\* the code is 1, not 2
C2_Witness ==
    /\ pc = "done"
    /\ exit_code = 1
    /\ ~feedback_res.ok
    /\ customer_res.ok
    /\ ~DocWellShaped(customer_res.data, "customers")

\* both fetched, both well-shaped, an empty list on at least one side
EmptyListCase ==
    /\ BothFetched
    /\ BothShaped
    /\ (FeedbackItems = <<>> \/ CustomerItems = <<>>)

\* C6 as stated: with an empty list on a side the join is performed, its
\* zero rows are recorded in the diagnostics, and run returns 3.
C6_Original ==
    (pc = "done" /\ EmptyListCase) =>
        /\ exit_code = 3
        /\ "post_merge" \in DOMAIN diag
        /\ diag["post_merge"].merged_rows = 0

\* C6: with both payloads fetched and well-shaped and an empty list on at
\* least one side, run does not crash and returns 3: the frame of an empty
\* list has no columns, so merge_with_diagnostics does not join but returns
\* the empty result with missing_join_key, which flags the empty side as
\* lacking customer_id; no post_merge entry is recorded, and the diagnostics
\* write is attempted once before the return.
C6_EmptyInput ==
    /\ (pc = "join" /\ EmptyListCase) => ENABLED JoinFrames
    /\ (pc \in {"output", "done"} /\ EmptyListCase) =>
         /\ pc = "done"
         /\ exit_code = 3
         /\ merged_df = EmptyFrame
         /\ DOMAIN diag \cap JoinKeys = {"missing_join_key"}
         /\ FeedbackItems = <<>> => ~diag["missing_join_key"].feedback_has_customer_id
         /\ CustomerItems = <<>> => ~diag["missing_join_key"].customer_has_customer_id
         /\ \E i \in 1..Len(log) : log[i] = "Merge produced 0 rows"
         /\ DiagAttempts = 1
         /\ DiagOnDisk => disk[DIAG_FILENAME] = diag

\* an empty feedback list against customers that carry keys ended with 3
C6_Witness ==
    /\ pc = "done"
    /\ EmptyListCase
    /\ FeedbackItems = <<>>
    /\ CustomerHasKey
    /\ exit_code = 3
    /\ DiagOnDisk

\* C10: when a side has no identifier column (feedback neither customer_id
\* nor id, customer neither customer_id nor customerId) the normalisers pass
\* the frame on and merge_with_diagnostics gives the empty result and, as its
\* only entry, missing_join_key with one flag per side telling whether that
\* side has customer_id; pre_merge, key_mismatches and post_merge are not
\* produced. With the key on both sides missing_join_key is not produced.
C10_MissingJoinKey ==
    (pc \in {"output", "done"} /\ BothFetched /\ BothShaped) =>
        /\ (~FeedbackHasKey \/ ~CustomerHasKey) =>
              /\ merged_df = EmptyFrame
              /\ DOMAIN diag \cap JoinKeys = {"missing_join_key"}
              /\ diag["missing_join_key"] =
                    [feedback_has_customer_id |-> FeedbackHasKey,
                     customer_has_customer_id |-> CustomerHasKey]
              /\ pc = "done"
              /\ exit_code = 3
        /\ (FeedbackHasKey /\ CustomerHasKey) =>
              DOMAIN diag \cap JoinKeys = {"pre_merge", "key_mismatches", "post_merge"}

\* feedback records without an identifier met customers with customerId
C10_Witness ==
    /\ pc = "done"
    /\ BothFetched
    /\ BothShaped
    /\ FeedbackItems # <<>>
    /\ ~FeedbackHasKey
    /\ CustomerHasKey
    /\ "customerId" \in DOMAIN CustomerItems[1].rec
    /\ diag["missing_join_key"] =
          [feedback_has_customer_id |-> FALSE, customer_has_customer_id |-> TRUE]

====
